---------------------------- MODULE Spec2Model ----------------------------
(***************************************************************************)
(* Model of ThreadsAPIClient (src/src/threads_api/client.py): the          *)
(* rate-limited request helper _make_api_request, the paginated listing    *)
(* get_user_posts, and the insights batch engine get_post_insights with    *)
(* its in-memory cache and its per-batch thread pool.                      *)
(*                                                                         *)
(* Post ids are modelled as the naturals 1..n.  Time is the integer clock  *)
(* `now`, in seconds, as read by time.time().                              *)
(***************************************************************************)
EXTENDS Integers, Sequences, FiniteSets, TLC

(***************************************************************************)
(* Program constants (ThreadsAPIClient.__init__).                          *)
(***************************************************************************)
batch_size == 100
insights_batch_size == 10
cache_duration == 3600

metrics == <<"views", "likes", "replies", "reposts", "quotes", "shares">>

(***************************************************************************)
(* Bounds of the model.                                                    *)
(***************************************************************************)
\* calls of get_post_insights in one behaviour of Spec
MaxCalls == 2
\* times the clock is advanced in one behaviour
MaxTicks == 1
\* length of the id list of SpecBatch: more than one sub-batch
LongLen == 11

Min(a, b) == IF a <= b THEN a ELSE b

Range(s) == {s[x] : x \in 1..Len(s)}

Last(s) == s[Len(s)]

(***************************************************************************)
(* The upstream: what requests.get can produce.  kind "http" is a          *)
(* response with a status code; "timeout" and "connerr" are transport      *)
(* failures, which requests.get raises as RequestException.                *)
(*                                                                         *)
(* An insights body is the JSON document                                   *)
(*   {data: [{name, values: [{value}], total_value: {value}}]}             *)
(* json = FALSE is a body response.json() cannot parse, hasData = FALSE a  *)
(* JSON object without the key "data".  In a metric record, `values` is    *)
(* the list of the "value" fields of its elements (hasValue = FALSE: the   *)
(* element has no "value" key) and `total` the total_value object          *)
(* (present = FALSE: no such key).                                         *)
(***************************************************************************)
Val(v) == [hasValue |-> TRUE, value |-> v]
NoVal == [hasValue |-> FALSE, value |-> 0]
NoTotal == [present |-> FALSE, hasValue |-> FALSE, value |-> 0]
Total(v) == [present |-> TRUE, hasValue |-> TRUE, value |-> v]
Metric(n, vs, t) == [name |-> n, values |-> vs, total |-> t]

NoBody == [json |-> FALSE, hasData |-> FALSE, data |-> <<>>]
JsonNoData == [json |-> TRUE, hasData |-> FALSE, data |-> <<>>]
JsonData(ms) == [json |-> TRUE, hasData |-> TRUE, data |-> ms]

Http(st, b) == [kind |-> "http", status |-> st, body |-> b]
Timeout == [kind |-> "timeout", status |-> 0, body |-> NoBody]
ConnErr == [kind |-> "connerr", status |-> 0, body |-> NoBody]

\* views=100, likes=10 carried in `values`
OkA == Http(200, JsonData(<<Metric("views", <<Val(100)>>, NoTotal),
                            Metric("likes", <<Val(10)>>, NoTotal)>>))
\* views=50, likes=5 carried in `total_value`
OkC == Http(200, JsonData(<<Metric("views", <<>>, Total(50)),
                            Metric("likes", <<>>, Total(5))>>))
\* all six metrics, `values` and `total_value` both present on one of them
OkFull == Http(200, JsonData(<<Metric("views", <<Val(7), Val(9)>>, Total(8)),
                               Metric("likes", <<Val(6)>>, NoTotal),
                               Metric("replies", <<Val(5)>>, NoTotal),
                               Metric("reposts", <<>>, Total(4)),
                               Metric("quotes", <<NoVal>>, NoTotal),
                               Metric("shares", <<Val(2)>>, NoTotal)>>))

InsightOutcomes ==
    << OkA, Timeout, OkC, Http(500, JsonNoData), OkFull, Http(304, NoBody),
       Http(404, JsonNoData), ConnErr, Http(200, JsonNoData), Http(204, NoBody) >>

\* Upstream scenarios: which item gets which response during one call.
Scenarios == {1, 2, 3}

\* The response the upstream gives for item `id` while scenario s is in force.
Upstream(s, id) == InsightOutcomes[((id + s - 2) % Len(InsightOutcomes)) + 1]


(***************************************************************************)
(* _make_api_request (client.py 75-99), as a function of what requests.get *)
(* produced.  The result says how control goes back to the caller          *)
(* (ret = TRUE: `return response`; ret = FALSE: an exception propagates),  *)
(* whether time.sleep(self.api_delay) ran on the way, and the response.    *)
(***************************************************************************)

\* faulty variant: only the server errors raise
RaisesForStatus_5xxOnly(status) == 500 <= status /\ status < 600

\* response.raise_for_status(): HTTPError for the 4xx and 5xx statuses.
RaisesForStatus(status) == 400 <= status /\ status < 600

\* faulty variant: the sleep moved to a `finally`, so that it runs on every path
MakeApiRequest_SleepAlways(o) ==
    [ret |-> o.kind = "http" /\ ~RaisesForStatus(o.status),
     slept |-> TRUE, resp |-> o]

MakeApiRequest(o) ==
    IF o.kind # "http"
    THEN \* requests.get raised; `except RequestException`: log, re-raise
         [ret |-> FALSE, slept |-> FALSE, resp |-> o]
    ELSE IF RaisesForStatus(o.status)
    THEN \* raise_for_status raised before the sleep; log, re-raise
         [ret |-> FALSE, slept |-> FALSE, resp |-> o]
    ELSE \* time.sleep(self.api_delay); return response
         [ret |-> TRUE, slept |-> TRUE, resp |-> o]

(***************************************************************************)
(* _process_single_insight (client.py 174-196).                            *)
(***************************************************************************)
MetricSet == Range(metrics)

\* {metric: 0 for metric in self.metrics}
ZeroInsights == [m \in MetricSet |-> 0]

\* insights[name] = v  (adds the key when the name is not one of the six)
SetMetric(ins, name, v) == (name :> v) @@ ins

\* faulty variant: total_value is preferred to the first element of `values`
ApplyMetric_TotalFirst(ins, m) ==
    IF m.total.present
    THEN SetMetric(ins, m.name, IF m.total.hasValue THEN m.total.value ELSE 0)
    ELSE IF Len(m.values) > 0
    THEN SetMetric(ins, m.name,
                   IF m.values[1].hasValue THEN m.values[1].value ELSE 0)
    ELSE ins

\* one turn of `for metric in data['data']` (lines 185-188)
ApplyMetric(ins, m) ==
    IF Len(m.values) > 0
    THEN SetMetric(ins, m.name,
                   IF m.values[1].hasValue THEN m.values[1].value ELSE 0)
    ELSE IF m.total.present
    THEN SetMetric(ins, m.name, IF m.total.hasValue THEN m.total.value ELSE 0)
    ELSE ins

RECURSIVE ApplyMetrics(_, _)
ApplyMetrics(ins, ms) ==
    IF ms = <<>> THEN ins
    ELSE ApplyMetrics(ApplyMetric(ins, Head(ms)), Tail(ms))

\* faulty variant: no try/except around the worker's body
ProcessSingleInsight_NoCatch(post_id, o) ==
    LET r == MakeApiRequest(o) IN
    IF ~r.ret \/ ~r.resp.body.json
    THEN [raised |-> TRUE, post_id |-> post_id, insights |-> ZeroInsights]
    ELSE [raised |-> FALSE, post_id |-> post_id,
          insights |-> IF r.resp.body.hasData
                       THEN ApplyMetrics(ZeroInsights, r.resp.body.data)
                       ELSE ZeroInsights]

\* The worker's result: raised = TRUE would be an exception leaving the
\* worker (future.result() re-raises it); the `except Exception` of line 194
\* leaves none.
ProcessSingleInsight(post_id, o) ==
    LET r == MakeApiRequest(o) IN
    IF ~r.ret
    THEN [raised |-> FALSE, post_id |-> post_id, insights |-> ZeroInsights]
    ELSE IF ~r.resp.body.json
    THEN \* response.json() raises; caught at line 194
         [raised |-> FALSE, post_id |-> post_id, insights |-> ZeroInsights]
    ELSE IF r.resp.body.hasData
    THEN [raised |-> FALSE, post_id |-> post_id,
          insights |-> ApplyMetrics(ZeroInsights, r.resp.body.data)]
    ELSE [raised |-> FALSE, post_id |-> post_id, insights |-> ZeroInsights]

(***************************************************************************)
(* The insights cache (client.py 65, 161-172): post id -> entry.           *)
(***************************************************************************)
NoCache == [x \in {} |-> [data |-> ZeroInsights, timestamp |-> 0]]

\* post_id in self._insights_cache
InCache(c, id) == id \in DOMAIN c

\* _should_update_cache: defined by the client, called by none of its methods
ShouldUpdateCache(c, id, t) ==
    IF ~InCache(c, id) THEN TRUE
    ELSE t - c[id].timestamp > cache_duration

\* faulty variant: writing an entry sweeps the expired ones out
UpdateCache_Evicts(c, id, ins, t) ==
    LET kept == {x \in DOMAIN c : t - c[x].timestamp <= cache_duration}
    IN  (id :> [data |-> ins, timestamp |-> t]) @@ [x \in kept |-> c[x]]

\* faulty variant: the entry is written without reading the clock
UpdateCache_NoStamp(c, id, ins, t) ==
    (id :> [data |-> ins, timestamp |-> 0]) @@ c

\* faulty variant: an entry that exists is not written again
UpdateCache_KeepFirst(c, id, ins, t) ==
    IF InCache(c, id) THEN c ELSE (id :> [data |-> ins, timestamp |-> t]) @@ c

\* faulty variant: a bundle of zeros is not cached
UpdateCache_SkipZero(c, id, ins, t) ==
    IF ins = ZeroInsights THEN c
    ELSE (id :> [data |-> ins, timestamp |-> t]) @@ c

\* _update_cache
UpdateCache(c, id, ins, t) ==
    (id :> [data |-> ins, timestamp |-> t]) @@ c

EmptyMap == [x \in {} |-> ZeroInsights]

\* faulty variant: the cache is never consulted
CachedPosts_NoHit(ids, c) == EmptyMap

\* line 219: the cached part of the request
CachedPosts(ids, c) ==
    [id \in {x \in Range(ids) : InCache(c, x)} |-> c[id].data]

\* faulty variant: the cached ids are not taken out of the list
Misses_All(ids, cached) == ids

\* line 221: the ids left to fetch
Misses(ids, cached) == SelectSeq(ids, LAMBDA x : x \notin DOMAIN cached)

\* faulty variant: the slice has no upper end
BatchSlice_ToEnd(ids, i) == SubSeq(ids, i, Len(ids))

\* line 226: post_ids[i:i + self.insights_batch_size], i counted from 1
BatchSlice(ids, i) == SubSeq(ids, i, Min(i + insights_batch_size - 1, Len(ids)))

\* faulty variant: an item whose bundle is all zeros is left out of the result
PutInsights_SkipZero(map, id, ins) ==
    IF ins = ZeroInsights THEN map ELSE (id :> ins) @@ map

\* faulty variant: a result is filed under the id of a neighbouring task
PutInsights_WrongKey(map, id, ins) == ((id % 3) + 1 :> ins) @@ map

\* lines 241, 253: insights_map[post_id] = insights
PutInsights(map, id, ins) == (id :> ins) @@ map


(***************************************************************************)
(* Inputs of get_post_insights.                                            *)
(***************************************************************************)
Ids == 1..LongLen

StrInput(id) == [isStr |-> TRUE, id |-> id, list |-> <<>>]
ListInput(l) == [isStr |-> FALSE, id |-> 0, list |-> l]

\* lines 210-211: a single id becomes a one-element list
Normalize(inp) == IF inp.isStr THEN <<inp.id>> ELSE inp.list

ShortInputs ==
    { StrInput(3), ListInput(<<1, 2, 3>>), ListInput(<<3, 1>>),
      ListInput(<<2, 2>>), ListInput(<<>>) }

LongInputs == { ListInput([x \in 1..LongLen |-> x]) }

(***************************************************************************)
(* State.                                                                  *)
(***************************************************************************)
VARIABLES
    now,            \* time.time()
    ticksLeft,      \* clock advances left (bound)
    callsLeft,      \* calls of get_post_insights left (bound)
    cache,          \* self._insights_cache
    ipc,            \* where get_post_insights stands
    req_ids,        \* post_ids as normalised at line 211
    use_cache,      \* the argument
    scen,           \* the upstream scenario in force during the call
    post_ids,       \* post_ids after line 221: the ids to fetch
    insights_map,   \* insights_map
    bi,             \* the loop variable i of line 225, counted from 1
    futs,           \* future_to_post, in submission order
    ck,             \* position of `for future in future_to_post`
    fetches,        \* requests.get calls made per id during the call
    cache0,         \* the cache as the call found it
    now0            \* the clock as the call found it

ivars == <<now, ticksLeft, callsLeft, cache, ipc, req_ids, use_cache, scen,
           post_ids, insights_map, bi, futs, ck, fetches, cache0, now0>>

VARIABLES
    lpc,            \* where get_user_posts stands
    limit,          \* the arguments
    is_test_mode,
    since,
    all_posts,      \* all_posts
    next_page,      \* next_page
    reqlog,         \* the requests issued during the call, in order
    lastreq,        \* how the latest _make_api_request went
    pages,          \* the bodies of the requests that returned parsable JSON
    ended           \* why the loop was left

lvars == <<lpc, limit, is_test_mode, since, all_posts, next_page, reqlog,
           lastreq, pages, ended>>

VARIABLES
    keyFile,        \* the key file: the key it holds, or NoFile
    keysMade,       \* keys generated so far
    blob,           \* the credentials file: its bytes, or NoBlob
    store,          \* the CryptoManager objects: the key self.fernet holds
    wr,             \* the write_bytes of encrypt_credentials under way
    sealed,         \* the dicts of the last two completed encrypt_credentials
    last,           \* the latest CryptoManager call and how it went
    run             \* the run of main()

svars == <<keyFile, keysMade, blob, store, wr, sealed, last, run>>

NoFetches == [x \in {} |-> 0]

\* requests.get calls made for id during the call
Fetched(id) == IF id \in DOMAIN fetches THEN fetches[id] ELSE 0

InitInsights ==
    /\ now = 0
    /\ ticksLeft = MaxTicks
    /\ cache = NoCache
    /\ ipc = "idle"
    /\ req_ids = <<>>
    /\ use_cache = TRUE
    /\ scen = 1
    /\ post_ids = <<>>
    /\ insights_map = EmptyMap
    /\ bi = 1
    /\ futs = <<>>
    /\ ck = 1
    /\ fetches = NoFetches
    /\ cache0 = NoCache
    /\ now0 = 0

\* Time passes.
Tick ==
    /\ ticksLeft > 0
    /\ \E d \in {cache_duration, cache_duration + 1} : now' = now + d
    /\ ticksLeft' = ticksLeft - 1
    /\ UNCHANGED <<callsLeft, cache, ipc, req_ids, use_cache, scen, post_ids,
                   insights_map, bi, futs, ck, fetches, cache0, now0>>
    /\ UNCHANGED <<lvars, svars>>

\* get_post_insights is called: lines 209-222.
GetPostInsights(inputs, scens) ==
    /\ ipc \in {"idle", "returned"}
    /\ callsLeft > 0
    /\ \E inp \in inputs, uc \in BOOLEAN, s \in scens :
         LET ids == Normalize(inp)
             cached == IF uc THEN CachedPosts(ids, cache) ELSE EmptyMap
         IN  /\ req_ids' = ids
             /\ use_cache' = uc
             /\ scen' = s
             /\ insights_map' = cached
             /\ post_ids' = IF uc THEN Misses(ids, cached) ELSE ids
    /\ callsLeft' = callsLeft - 1
    /\ bi' = 1
    /\ futs' = <<>>
    /\ ck' = 1
    /\ fetches' = NoFetches
    /\ cache0' = cache
    /\ now0' = now
    /\ ipc' = "loop"
    /\ UNCHANGED <<now, ticksLeft, cache>>
    /\ UNCHANGED <<lvars, svars>>

\* One turn of `for i in range(0, len(post_ids), insights_batch_size)` begins:
\* the batch is sliced and every id of it submitted to a new executor
\* (lines 225-235).  len(batch) <= max_workers, so each task has a thread.
SubmitBatch ==
    /\ ipc = "loop"
    /\ bi <= Len(post_ids)
    /\ LET batch == BatchSlice(post_ids, bi) IN
         futs' = [j \in 1..Len(batch) |->
                    [st |-> "submitted", post_id |-> batch[j],
                     res |-> [raised |-> FALSE, post_id |-> batch[j],
                              insights |-> ZeroInsights]]]
    /\ ck' = 1
    /\ ipc' = "collect"
    /\ UNCHANGED <<now, ticksLeft, callsLeft, cache, req_ids, use_cache, scen,
                   post_ids, insights_map, bi, fetches, cache0, now0>>
    /\ UNCHANGED <<lvars, svars>>

\* A worker issues its request (line 179 -> line 82).
WorkerSend(j) ==
    /\ j \in 1..Len(futs)
    /\ futs[j].st = "submitted"
    /\ futs' = [futs EXCEPT ![j].st = "requesting"]
    /\ fetches' = (futs[j].post_id :> Fetched(futs[j].post_id) + 1) @@ fetches
    /\ UNCHANGED <<now, ticksLeft, callsLeft, cache, ipc, req_ids, use_cache,
                   scen, post_ids, insights_map, bi, ck, cache0, now0>>
    /\ UNCHANGED <<lvars, svars>>

\* The request ends and the worker runs to its return (lines 82-99, 180-196).
WorkerFinish(j) ==
    /\ j \in 1..Len(futs)
    /\ futs[j].st = "requesting"
    /\ futs' = [futs EXCEPT
                  ![j].st = "finished",
                  ![j].res = ProcessSingleInsight(futs[j].post_id,
                                                  Upstream(scen, futs[j].post_id))]
    /\ UNCHANGED <<now, ticksLeft, callsLeft, cache, ipc, req_ids, use_cache,
                   scen, post_ids, insights_map, bi, ck, fetches, cache0, now0>>
    /\ UNCHANGED <<lvars, svars>>

\* any worker of the running sub-batch may take its next step
Send == \E j \in 1..Len(futs) : WorkerSend(j)
Finish == \E j \in 1..Len(futs) : WorkerFinish(j)

\* faulty variant: the result is cached whatever use_cache says
CacheResult_Always(uc, c, id, ins, t) == UpdateCache(c, id, ins, t)

\* lines 244-245: `if use_cache: self._update_cache(post_id, insights)`
CacheResult(uc, c, id, ins, t) ==
    IF uc THEN UpdateCache(c, id, ins, t) ELSE c

\* One turn of `for future in future_to_post` (lines 238-254):
\* future.result() returns once the worker has finished.
Collect ==
    /\ ipc = "collect"
    /\ ck <= Len(futs)
    /\ futs[ck].st = "finished"
    /\ LET r == futs[ck].res IN
         IF ~r.raised
         THEN /\ insights_map' = PutInsights(insights_map, r.post_id, r.insights)
              /\ cache' = CacheResult(use_cache, cache, r.post_id, r.insights, now)
         ELSE \* lines 250-254
              /\ insights_map' = PutInsights(insights_map, futs[ck].post_id, ZeroInsights)
              /\ cache' = cache
    /\ ck' = ck + 1
    /\ UNCHANGED <<now, ticksLeft, callsLeft, ipc, req_ids, use_cache, scen,
                   post_ids, bi, futs, fetches, cache0, now0>>
    /\ UNCHANGED <<lvars, svars>>

\* faulty variant: the loop steps without waiting for the batch's workers
BatchDone_NoWait(fs, k) == TRUE

\* The `for future in future_to_post` loop has taken every result and the
\* `with` block has shut its executor down (lines 238-255).
BatchDone(fs, k) == k > Len(fs)

\* The `with` block ends (every worker has finished) and the loop steps.
EndBatch ==
    /\ ipc = "collect"
    /\ BatchDone(futs, ck)
    /\ bi' = bi + insights_batch_size
    /\ futs' = <<>>
    /\ ck' = 1
    /\ ipc' = "loop"
    /\ UNCHANGED <<now, ticksLeft, callsLeft, cache, req_ids, use_cache, scen,
                   post_ids, insights_map, fetches, cache0, now0>>
    /\ UNCHANGED <<lvars, svars>>

\* line 259: return insights_map
ReturnInsights ==
    /\ ipc = "loop"
    /\ bi > Len(post_ids)
    /\ ipc' = "returned"
    /\ UNCHANGED <<now, ticksLeft, callsLeft, cache, req_ids, use_cache, scen,
                   post_ids, insights_map, bi, futs, ck, fetches, cache0, now0>>
    /\ UNCHANGED <<lvars, svars>>


(***************************************************************************)
(* get_user_posts (client.py 101-159).                                     *)
(*                                                                         *)
(* An endpoint is the string passed to _make_api_request: kind "path" is a *)
(* path below base_url ('me/threads' is page 1, a cursor path is page p),  *)
(* "url" a whole URL (a link that did not start with base_url), "empty"    *)
(* the empty string and "none" None.  The `next` link of a listing body is *)
(* "base" (base_url + "/" + the path of page p), "other" (a URL under      *)
(* another prefix), "bare" (base_url + "/" and nothing more), "none" (no   *)
(* paging.next) or "nopaging" ("paging": null).                            *)
(***************************************************************************)
basic_fields == <<"id", "shortcode", "timestamp", "text", "is_quote_post",
                  "media_type", "permalink">>

Endpoint(k, p) == [kind |-> k, page |-> p]
MeThreads == Endpoint("path", 1)

Link(k, p) == [kind |-> k, page |-> p]

\* line 151: next_page.split(self.base_url + "/")[-1]
StripBase(link) ==
    IF link.kind = "base" THEN Endpoint("path", link.page)
    ELSE IF link.kind = "bare" THEN Endpoint("empty", 0)
    ELSE Endpoint("url", link.page)

\* the truth value of next_page (`while next_page`, `if next_page`)
Truthy(ep) == ep.kind \in {"path", "url"}

\* A listing body: {data: [...], paging: {next: url}}
ListBody(items, link) == [json |-> TRUE, items |-> items, next |-> link]
ListNoBody == [json |-> FALSE, items |-> <<>>, next |-> Link("none", 0)]

\* requests per call of get_user_posts (the upstream may link pages for ever)
MaxRequests == 4

\* page sizes the upstream answers with
PageSizes == {0, 1, 60}

\* the items of the n-th page served: n items, named by page and position
PageItems(n, size) == [x \in 1..size |-> <<n, x>>]

\* What requests.get can produce for the n-th listing request.
ListOutcomes(n) ==
    { Timeout, ConnErr, Http(500, ListNoBody), Http(404, ListNoBody),
      Http(304, ListNoBody), Http(200, ListNoBody) }
    \cup { Http(200, ListBody(PageItems(n, sz), Link(lk, n + 1))) :
             sz \in PageSizes, lk \in {"base", "other", "bare", "none", "nopaging"} }

Limits == {-1, 0, 2, 150}
\* "None" stands for None
Sinces == {"None", "", "2024-01-01T00:00:00Z"}

NoRequest == [ret |-> FALSE, slept |-> FALSE, resp |-> Timeout]

InitPosts ==
    /\ lpc = "idle"
    /\ limit = 100
    /\ is_test_mode = FALSE
    /\ since = "None"
    /\ all_posts = <<>>
    /\ next_page = MeThreads
    /\ reqlog = <<>>
    /\ lastreq = NoRequest
    /\ pages = <<>>
    /\ ended = ""

\* get_user_posts is called: lines 113-114.
GetUserPosts ==
    /\ lpc = "idle"
    /\ \E l \in Limits, t \in BOOLEAN, sn \in Sinces :
         /\ limit' = l
         /\ is_test_mode' = t
         /\ since' = sn
    /\ all_posts' = <<>>
    /\ next_page' = MeThreads
    /\ reqlog' = <<>>
    /\ lastreq' = NoRequest
    /\ pages' = <<>>
    /\ ended' = ""
    /\ lpc' = "loop"
    /\ UNCHANGED <<ivars, svars>>

\* faulty variant: the page size is not capped at batch_size
CurrentBatch_NoMin(test, lim, have) == IF test THEN lim - have ELSE batch_size

\* lines 123-126
CurrentBatch(test, lim, have) ==
    IF test THEN Min(lim - have, batch_size) ELSE batch_size

\* faulty variant: `since` is left out of the query
Params_NoSince(cb, sn) ==
    [fields |-> basic_fields, limit |-> cb, hasSince |-> FALSE, since |-> ""]

\* lines 129-136: `since` is added when it is neither None nor empty
Params(cb, sn) ==
    [fields |-> basic_fields, limit |-> cb,
     hasSince |-> sn \notin {"None", ""},
     since |-> IF sn \in {"None", ""} THEN "" ELSE sn]

\* faulty variant: no try/except in the loop
Catches_Nothing(what) == FALSE

\* lines 154-156: `except Exception` catches whatever the try block raises
Catches(what) == what \in {"request", "json", "paging"}

\* `while next_page` is false: the loop ends (line 118).
LoopExhausted ==
    /\ lpc = "loop"
    /\ ~Truthy(next_page)
    /\ ended' = "nonext"
    /\ lpc' = "exit"
    /\ UNCHANGED <<limit, is_test_mode, since, all_posts, next_page, reqlog,
                   lastreq, pages>>
    /\ UNCHANGED <<ivars, svars>>

\* faulty variant: the break waits for exactly `limit` items
AtLimit_Exact(test, lim, have) == test /\ have = lim

\* line 120: is_test_mode and len(all_posts) >= limit
AtLimit(test, lim, have) == test /\ have >= lim

\* lines 120-121: test mode has its items.
LimitReached ==
    /\ lpc = "loop"
    /\ Truthy(next_page)
    /\ AtLimit(is_test_mode, limit, Len(all_posts))
    /\ ended' = "limit"
    /\ lpc' = "exit"
    /\ UNCHANGED <<limit, is_test_mode, since, all_posts, next_page, reqlog,
                   lastreq, pages>>
    /\ UNCHANGED <<ivars, svars>>

\* One turn of the loop that issues a request: lines 123-156.
FetchPage ==
    /\ lpc = "loop"
    /\ Truthy(next_page)
    /\ ~AtLimit(is_test_mode, limit, Len(all_posts))
    /\ Len(reqlog) < MaxRequests
    /\ LET params == Params(CurrentBatch(is_test_mode, limit, Len(all_posts)), since)
       IN reqlog' = Append(reqlog, [endpoint |-> next_page, params |-> params])
    /\ \E o \in ListOutcomes(Len(reqlog) + 1) :
         LET r == MakeApiRequest(o)
             body == o.body
             fail(what) ==
                 /\ ended' = what
                 /\ lpc' = IF Catches(what) THEN "exit" ELSE "raised"
         IN  /\ lastreq' = r
             /\ IF ~r.ret
                THEN /\ fail("request")
                     /\ UNCHANGED <<all_posts, next_page, pages>>
                ELSE IF ~body.json
                THEN \* response.json() raises
                     /\ fail("json")
                     /\ UNCHANGED <<all_posts, next_page, pages>>
                ELSE /\ all_posts' = all_posts \o body.items
                     /\ pages' = Append(pages, body)
                     /\ IF body.next.kind = "nopaging"
                        THEN \* None.get("next") raises
                             /\ fail("paging")
                             /\ UNCHANGED next_page
                        ELSE /\ next_page' = IF body.next.kind = "none"
                                             THEN Endpoint("none", 0)
                                             ELSE StripBase(body.next)
                             /\ UNCHANGED <<ended, lpc>>
    /\ UNCHANGED <<limit, is_test_mode, since>>
    /\ UNCHANGED <<ivars, svars>>

\* lines 158-159: return all_posts
ReturnPosts ==
    /\ lpc = "exit"
    /\ lpc' = "returned"
    /\ UNCHANGED <<limit, is_test_mode, since, all_posts, next_page, reqlog,
                   lastreq, pages, ended>>
    /\ UNCHANGED <<ivars, svars>>

(***************************************************************************)
(* The credential store: CryptoManager of src/utils/crypto_utils.py, the   *)
(* key generator of src/utils/generate_key.py, and the start of a run      *)
(* (ThreadsAPIClient.__init__, main).                                      *)
(***************************************************************************)
MaxRunRequests == 1  \* requests a run issues once the client exists

\* the keys Fernet.generate_key() hands out, in order
Keys == <<"K1", "K2">>

\* a file that does not exist; a file holding c
NoFile == <<>>
File(c) == <<c>>

\* Python values: a str, a list or a tuple (v holds the str, or the items);
\* None
PyStr(s) == [t |-> "str", v |-> <<s>>]
PyList(items) == [t |-> "list", v |-> items]
PyTuple(items) == [t |-> "tuple", v |-> items]
None == [t |-> "none", v |-> <<>>]

\* Python dict keys: a str, or an int written in decimal
StrKey(s) == [t |-> "str", v |-> s]
IntKey(d) == [t |-> "int", v |-> d]

\* `not x` of Python
Falsy(x) == x.t = "none" \/ x.v = <<>> \/ (x.t = "str" /\ x.v = <<"">>)

\* json.dumps of a value: str becomes a JSON string, list and tuple both
\* become a JSON array
JsonValue(x) == [t |-> IF x.t = "str" THEN "string" ELSE "array", v |-> x.v]

\* json.dumps of a dict: a JSON object, member names are strings (an int key
\* is written as its decimal string)
JsonDumps(M) ==
    [n \in {k.v : k \in DOMAIN M} |->
        JsonValue(M[CHOOSE k \in DOMAIN M : k.v = n])]

\* faulty variant: a JSON array becomes a tuple
PyValue_Tuple(y) == [t |-> IF y.t = "string" THEN "str" ELSE "tuple", v |-> y.v]

\* json.loads of a value: a JSON string becomes str, a JSON array list
PyValue(y) == [t |-> IF y.t = "string" THEN "str" ELSE "list", v |-> y.v]

\* json.loads of a JSON object: a dict with str keys
JsonLoads(j) == [k \in {StrKey(n) : n \in DOMAIN j} |-> PyValue(j[k.v])]

\* len() of the strings in use
StrLen(s) ==
    CASE s = "" -> 0
      [] s = "1" -> 1
      [] s \in {"r", "w"} -> 1
      [] s \in {"t1", "t2", "s1"} -> 2
      [] s = "scopes" -> 6
      [] s = "threads_token" -> 13
      [] s = "spreadsheet_id" -> 14

\* characters json.dumps writes for a sequence of quoted items joined by ", "
RECURSIVE ItemsLen(_)
ItemsLen(items) ==
    IF items = <<>> THEN 0
    ELSE StrLen(Head(items)) + 2
         + (IF Len(items) > 1 THEN 2 ELSE 0) + ItemsLen(Tail(items))

\* a string is its quoted text, an array adds the brackets
ValueLen(y) == IF y.t = "string" THEN ItemsLen(y.v) ELSE 2 + ItemsLen(y.v)

RECURSIVE MembersLen(_, _)
MembersLen(j, names) ==
    IF names = {} THEN 0
    ELSE LET n == CHOOSE x \in names : TRUE
         IN StrLen(n) + 2 + 2 + ValueLen(j[n])
            + (IF Cardinality(names) > 1 THEN 2 ELSE 0)
            + MembersLen(j, names \ {n})

\* len(json_data.encode()): the braces and the members, ", " and ": " apart
TextLen(j) == 2 + MembersLen(j, DOMAIN j)

\* A Fernet token is the urlsafe base64 text of: version (1 byte),
\* timestamp (8), IV (16), AES-CBC ciphertext with PKCS7 padding, and the
\* HMAC (32) of all that comes before it.
TokenBytes(n) == 1 + 8 + 16 + 16 * (n \div 16 + 1) + 32

\* '=' characters closing the base64 text; the character before them carries
\* 2 unused bits per '=', which base64.urlsafe_b64decode does not look at
Padding(bytes) == (3 - (bytes % 3)) % 3

NoToken == [key |-> "", text |-> JsonDumps(<<>>), pad |-> 0]

\* self.fernet.encrypt(json_data.encode())
FernetEncrypt(key, text) ==
    [key |-> key, text |-> text, pad |-> Padding(TokenBytes(TextLen(text)))]

\* Bytes of the credentials file: a token as written (cut "whole"), its
\* proper prefix ("part"), or nothing ("empty"); flip tells whether one bit
\* differs from what was written, in the decoded bytes ("body") or in the
\* unused bits of the last base64 character ("slack").
Whole(tok) == [tok |-> tok, cut |-> "whole", flip |-> "none"]
Part(tok) == [tok |-> tok, cut |-> "part", flip |-> "none"]
Empty == [tok |-> NoToken, cut |-> "empty", flip |-> "none"]

Intact(bytes) == bytes.cut = "whole" /\ bytes.flip = "none"

\* faulty variant: no HMAC check, damaged bytes decrypt to some other text
FernetDecrypt_NoHmac(key, bytes) ==
    IF bytes.tok.key # key THEN [ok |-> FALSE, text |-> NoToken.text]
    ELSE [ok |-> TRUE,
          text |-> IF Intact(bytes) THEN bytes.tok.text ELSE NoToken.text]

\* faulty variant: any key opens any token
FernetDecrypt_AnyKey(key, bytes) ==
    IF bytes.cut = "whole" /\ bytes.flip # "body"
    THEN [ok |-> TRUE, text |-> bytes.tok.text]
    ELSE [ok |-> FALSE, text |-> NoToken.text]

\* self.fernet.decrypt(encrypted_data): the text, or InvalidToken when the
\* base64 text does not decode, or the HMAC under this key does not match
\* the decoded bytes
FernetDecrypt(key, bytes) ==
    IF bytes.cut = "whole" /\ bytes.flip # "body" /\ bytes.tok.key = key
    THEN [ok |-> TRUE, text |-> bytes.tok.text]
    ELSE [ok |-> FALSE, text |-> NoToken.text]

\* How a call ends: it returns (a dict, a value, or a Fernet key held by the
\* new object) or raises an exception of a type with a message
Returns == [ok |-> TRUE, map |-> <<>>, val |-> None, key |-> "",
            type |-> "", msg |-> <<>>]
ReturnMap(M) == [Returns EXCEPT !.map = M]
ReturnValue(x) == [Returns EXCEPT !.val = x]
ReturnKey(k) == [Returns EXCEPT !.key = k]
Raise(type, msg) == [Returns EXCEPT !.ok = FALSE, !.type = type, !.msg = msg]

\* raise CryptoError(f"{prefix}: {e}")
Wrap(prefix, e) == Raise("CryptoError", <<prefix>> \o e.msg)

KeyFileNotFound == Raise("CryptoError", <<"Encryption key file not found">>)
CredentialsFileNotFound == Raise("CryptoError", <<"Credentials file not found">>)
InvalidTokenError ==
    Raise("CryptoError", <<"Invalid encryption key or corrupted data">>)
\* line 187, message rendered in English
CredentialNotFound == Raise("CryptoError", <<"credential not found">>)

\* faulty variant: a missing key file is replaced by a fresh key
CryptoManagerInit_MakesKey(kf) ==
    IF kf = NoFile THEN ReturnKey(Keys[Len(Keys)]) ELSE ReturnKey(kf[1])

\* CryptoManager.__init__
CryptoManagerInit(kf) ==
    IF kf = NoFile THEN Wrap("Initialization failed", KeyFileNotFound)
    ELSE ReturnKey(kf[1])

\* the environment variables a process sees: set or not
Envs == [CRYPTO_KEY_PATH : BOOLEAN, CREDENTIALS_PATH : BOOLEAN]

\* CryptoManager.from_env
FromEnv(env, kf) ==
    IF ~env.CRYPTO_KEY_PATH
    THEN Raise("CryptoError", <<"Missing CRYPTO_KEY_PATH environment variable">>)
    ELSE IF ~env.CREDENTIALS_PATH
    THEN Raise("CryptoError", <<"Missing CREDENTIALS_PATH environment variable">>)
    ELSE LET r == CryptoManagerInit(kf)
         IN IF r.ok THEN r ELSE Wrap("Environment initialization failed", r)

\* faulty variant: a missing file reads as no bytes
LoadCredentials_AbsentIsEmpty(key, bl) ==
    LET d == FernetDecrypt(key, IF bl = NoFile THEN Empty ELSE bl[1])
    IN IF ~d.ok THEN InvalidTokenError ELSE ReturnMap(JsonLoads(d.text))

\* CryptoManager.load_credentials: the CryptoError raised at line 158 is
\* caught by the handler at line 174
LoadCredentials(key, bl) ==
    IF bl = NoFile THEN Wrap("Decryption failed", CredentialsFileNotFound)
    ELSE LET d == FernetDecrypt(key, bl[1])
         IN IF ~d.ok THEN InvalidTokenError
            ELSE ReturnMap(JsonLoads(d.text))

\* faulty variant: the store answers from the first dict it saw sealed
GetSingleCredential_Stale(key, bl, name) ==
    LET r == IF sealed = <<>> THEN LoadCredentials(key, bl)
             ELSE ReturnMap(JsonLoads(JsonDumps(sealed[1])))
    IN IF ~r.ok THEN Wrap("get_single_credential", r)
       ELSE IF StrKey(name) \notin DOMAIN r.map
       THEN Wrap("get_single_credential", CredentialNotFound)
       ELSE ReturnValue(r.map[StrKey(name)])

\* faulty variant: creds.get(key) instead of the membership test
GetSingleCredential_Default(key, bl, name) ==
    LET r == LoadCredentials(key, bl)
    IN IF ~r.ok THEN Wrap("get_single_credential", r)
       ELSE IF StrKey(name) \notin DOMAIN r.map THEN ReturnValue(None)
       ELSE ReturnValue(r.map[StrKey(name)])

\* CryptoManager.get_single_credential; whatever is raised inside is raised
\* again as a CryptoError by the handler at line 189
GetSingleCredential(key, bl, name) ==
    LET r == LoadCredentials(key, bl)
    IN IF ~r.ok THEN Wrap("get_single_credential", r)
       ELSE IF StrKey(name) \notin DOMAIN r.map
       THEN Wrap("get_single_credential", CredentialNotFound)
       ELSE ReturnValue(r.map[StrKey(name)])

\* faulty variant: the token is not tested before the headers are set
ClientInit_AnyToken(env, kf, bl) ==
    IF ~env.CREDENTIALS_PATH
    THEN Raise("ValueError", <<"CREDENTIALS_PATH environment variable not set">>)
    ELSE LET c == FromEnv(env, kf)
         IN IF ~c.ok THEN c
            ELSE LET tk == GetSingleCredential(c.key, bl, "threads_token")
                 IN IF ~tk.ok THEN tk ELSE ReturnValue(tk.val)

\* ThreadsAPIClient.__init__ up to the headers: returns the token the
\* Authorization header carries, or raises what was raised inside
ClientInit(env, kf, bl) ==
    IF ~env.CREDENTIALS_PATH
    THEN Raise("ValueError", <<"CREDENTIALS_PATH environment variable not set">>)
    ELSE LET c == FromEnv(env, kf)
         IN IF ~c.ok THEN c
            ELSE LET tk == GetSingleCredential(c.key, bl, "threads_token")
                 IN IF ~tk.ok THEN tk
                    ELSE IF Falsy(tk.val)
                    THEN Raise("ValueError", <<"Unable to obtain access token">>)
                    ELSE ReturnValue(tk.val)

\* Inputs.  Credentials and StartupCredentials: dicts of the shape
\* setup_credentials.py builds (str keys, str values).  AnyCredentials adds
\* dicts json.dumps also accepts: a list value, a tuple value, an int key.
Full == (StrKey("threads_token") :> PyStr("t1"))
        @@ (StrKey("spreadsheet_id") :> PyStr("s1"))
TokenOnly == StrKey("threads_token") :> PyStr("t2")
EmptyToken == StrKey("threads_token") :> PyStr("")
SheetOnly == StrKey("spreadsheet_id") :> PyStr("s1")
WithList == (StrKey("threads_token") :> PyStr("t1"))
            @@ (StrKey("scopes") :> PyList(<<"r", "w">>))
WithTuple == (StrKey("threads_token") :> PyStr("t1"))
             @@ (StrKey("scopes") :> PyTuple(<<"r", "w">>))
IntKeyed == IntKey("1") :> PyStr("t1")

Credentials == {Full, TokenOnly}
StartupCredentials == {Full, EmptyToken, SheetOnly}
AnyCredentials == Credentials \cup {WithList, WithTuple, IntKeyed}
Names == {"threads_token", "spreadsheet_id"}
Stores == {1, 2}

NoStores == [x \in {} |-> ""]
NoWrite == [m |-> 0, M |-> <<>>, tok |-> NoToken]
NoRun == [st |-> "idle",
          env |-> [CRYPTO_KEY_PATH |-> TRUE, CREDENTIALS_PATH |-> TRUE],
          res |-> Returns, reqs |-> 0]

\* A call of store m as the history keeps it: the file it found at the path
\* it reads (for encrypt_credentials, the file it left), the dicts sealed
\* before it, and how it ended
Call(op, m, name, found, res) ==
    [op |-> op, m |-> m, name |-> name, found |-> found, sealed |-> sealed,
     res |-> res]
NoCall == [op |-> "none", m |-> 0, name |-> "", found |-> NoFile,
           sealed |-> <<>>, res |-> Returns]

\* a fresh checkout: no key, no credentials file, no process running
InitStore ==
    /\ keyFile = NoFile
    /\ keysMade = 0
    /\ blob = NoFile
    /\ store = NoStores
    /\ wr = NoWrite
    /\ sealed = <<>>
    /\ last = NoCall
    /\ run = NoRun

\* generate_encryption_key: a key never seen before replaces the key file
GenerateKey ==
    /\ keysMade < Len(Keys)
    /\ keysMade' = keysMade + 1
    /\ keyFile' = File(Keys[keysMade + 1])
    /\ UNCHANGED <<blob, store, wr, sealed, last, run>>
    /\ UNCHANGED <<ivars, lvars>>

\* the key file is lost
RemoveKeyFile ==
    /\ keyFile # NoFile
    /\ keyFile' = NoFile
    /\ UNCHANGED <<keysMade, blob, store, wr, sealed, last, run>>
    /\ UNCHANGED <<ivars, lvars>>

\* m = CryptoManager(key_path, credentials_path)
NewStore ==
    \E m \in Stores \ DOMAIN store :
        LET r == CryptoManagerInit(keyFile)
        IN /\ store' = IF r.ok THEN store @@ (m :> r.key) ELSE store
           /\ last' = Call("init", m, "", keyFile, r)
           /\ UNCHANGED <<keyFile, keysMade, blob, wr, sealed, run>>
           /\ UNCHANGED <<ivars, lvars>>

\* faulty variant: the new dict is merged into the one sealed before
EncryptedData_Merged(key, M) ==
    FernetEncrypt(key,
        JsonDumps(IF sealed = <<>> THEN M ELSE M @@ Last(sealed)))

\* encrypted_data of encrypt_credentials(M)
EncryptedData(key, M) == FernetEncrypt(key, JsonDumps(M))

\* encrypt_credentials(M) of store m up to the open() inside write_bytes:
\* the text is serialised and encrypted, then opening the file for writing
\* creates it or cuts it to no bytes
EncryptOpen(inputs) ==
    \E m \in DOMAIN store, M \in inputs :
        /\ wr = NoWrite
        /\ wr' = [m |-> m, M |-> M, tok |-> EncryptedData(store[m], M)]
        /\ blob' = File(Empty)
        /\ UNCHANGED <<keyFile, keysMade, store, sealed, last, run>>
        /\ UNCHANGED <<ivars, lvars>>

\* write_bytes has written some of the bytes
WritePart ==
    /\ wr # NoWrite
    /\ blob = File(Empty)
    /\ blob' = File(Part(wr.tok))
    /\ UNCHANGED <<keyFile, keysMade, store, wr, sealed, last, run>>
    /\ UNCHANGED <<ivars, lvars>>

\* write_bytes has written all bytes and closed the file;
\* encrypt_credentials returns
WriteDone ==
    /\ wr # NoWrite
    /\ blob' = File(Whole(wr.tok))
    /\ sealed' = IF sealed = <<>> THEN <<wr.M>> ELSE <<Last(sealed), wr.M>>
    /\ last' = Call("encrypt", wr.m, "", File(Whole(wr.tok)), Returns)
    /\ wr' = NoWrite
    /\ UNCHANGED <<keyFile, keysMade, store, run>>
    /\ UNCHANGED <<ivars, lvars>>

\* the write raises (disk full, I/O error) or the process is killed: the
\* file keeps the bytes written so far
WriteFails ==
    /\ wr # NoWrite
    /\ last' = Call("encrypt", wr.m, "", blob,
                  Wrap("Encryption failed",
                       Raise("OSError", <<"write failed">>)))
    /\ wr' = NoWrite
    /\ UNCHANGED <<keyFile, keysMade, blob, store, sealed, run>>
    /\ UNCHANGED <<ivars, lvars>>

\* one bit of the stored file changes
FlipBit ==
    /\ wr = NoWrite
    /\ blob # NoFile
    /\ Intact(blob[1])
    /\ \E f \in {"body"} \cup (IF blob[1].tok.pad > 0 THEN {"slack"} ELSE {}) :
           blob' = File([blob[1] EXCEPT !.flip = f])
    /\ UNCHANGED <<keyFile, keysMade, store, wr, sealed, last, run>>
    /\ UNCHANGED <<ivars, lvars>>

\* the stored file loses its tail, or all of its bytes
Truncate ==
    /\ wr = NoWrite
    /\ blob # NoFile
    /\ Intact(blob[1])
    /\ blob' \in {File(Part(blob[1].tok)), File(Empty)}
    /\ UNCHANGED <<keyFile, keysMade, store, wr, sealed, last, run>>
    /\ UNCHANGED <<ivars, lvars>>

\* m.load_credentials()
Load ==
    \E m \in DOMAIN store :
        /\ wr.m # m
        /\ last' = Call("load", m, "", blob,
                          LoadCredentials(store[m], blob))
        /\ UNCHANGED <<keyFile, keysMade, blob, store, wr, sealed, run>>
        /\ UNCHANGED <<ivars, lvars>>

\* m.get_single_credential(name)
Get ==
    \E m \in DOMAIN store, name \in Names :
        /\ wr.m # m
        /\ last' = Call("get", m, name, blob,
                          GetSingleCredential(store[m], blob, name))
        /\ UNCHANGED <<keyFile, keysMade, blob, store, wr, sealed, run>>
        /\ UNCHANGED <<ivars, lvars>>

\* main() without --sheets-only: ThreadsDataCollector() constructs the
\* client; what the constructor raises leaves main
RunStart ==
    \E env \in Envs :
        LET r == ClientInit(env, keyFile, blob)
        IN /\ run.st = "idle"
           /\ run' = [st |-> IF r.ok THEN "ready" ELSE "aborted",
                      env |-> env, res |-> r, reqs |-> 0]
           /\ UNCHANGED <<keyFile, keysMade, blob, store, wr, sealed, last>>
           /\ UNCHANGED <<ivars, lvars>>

\* collector.collect_posts: the client sends a request
RunRequest ==
    /\ run.st = "ready"
    /\ run.reqs < MaxRunRequests
    /\ run' = [run EXCEPT !.reqs = @ + 1]
    /\ UNCHANGED <<keyFile, keysMade, blob, store, wr, sealed, last>>
    /\ UNCHANGED <<ivars, lvars>>

(***************************************************************************)
(* Specifications.  Spec: calls of get_post_insights on short id lists,    *)
(* with time passing.  SpecBatch: one call on a list longer than a         *)
(* sub-batch.  SpecPosts: calls of get_user_posts.                         *)
(***************************************************************************)
vars == <<ivars, lvars, svars>>

Init == InitInsights /\ callsLeft = MaxCalls /\ InitPosts /\ InitStore

Next ==
    \/ Tick
    \/ GetPostInsights(ShortInputs, Scenarios)
    \/ SubmitBatch
    \/ Send
    \/ Finish
    \/ Collect
    \/ EndBatch
    \/ ReturnInsights

Spec == Init /\ [][Next]_vars

InitBatch == InitInsights /\ callsLeft = 1 /\ InitPosts /\ InitStore

NextBatch ==
    \/ GetPostInsights(LongInputs, {1})
    \/ SubmitBatch
    \/ Send
    \/ Finish
    \/ Collect
    \/ EndBatch
    \/ ReturnInsights

SpecBatch == InitBatch /\ [][NextBatch]_vars

InitListing == InitInsights /\ callsLeft = 0 /\ InitPosts /\ InitStore

NextPosts ==
    \/ GetUserPosts
    \/ LoopExhausted
    \/ LimitReached
    \/ FetchPage
    \/ ReturnPosts

SpecPosts == InitListing /\ [][NextPosts]_vars

InitBare == InitInsights /\ callsLeft = 0 /\ InitPosts /\ InitStore

NextStore ==
    \/ GenerateKey
    \/ RemoveKeyFile
    \/ NewStore
    \/ EncryptOpen(Credentials)
    \/ WritePart
    \/ WriteDone
    \/ WriteFails
    \/ FlipBit
    \/ Truncate
    \/ Load
    \/ Get

SpecStore == InitBare /\ [][NextStore]_vars

NextRoundTrip ==
    \/ GenerateKey
    \/ NewStore
    \/ EncryptOpen(AnyCredentials)
    \/ WriteDone
    \/ Load

SpecRoundTrip == InitBare /\ [][NextRoundTrip]_vars

NextStartup ==
    \/ GenerateKey
    \/ RemoveKeyFile
    \/ NewStore
    \/ EncryptOpen(StartupCredentials)
    \/ WriteDone
    \/ RunStart
    \/ RunRequest

SpecStartup == InitBare /\ [][NextStartup]_vars

(***************************************************************************)
(* Properties of get_post_insights.                                        *)
(***************************************************************************)
Requested == Range(req_ids)
Returned == ipc = "returned"
Distinct(ids) == Cardinality(Range(ids)) = Len(ids)

\* the call found an entry for id that was no older than cache_duration
WasFresh(id) ==
    id \in DOMAIN cache0 /\ now0 - cache0[id].timestamp <= cache_duration
\* the call found an entry for id that was older than cache_duration
WasExpired(id) ==
    id \in DOMAIN cache0 /\ now0 - cache0[id].timestamp > cache_duration

RECURSIVE SumFetches(_)
SumFetches(S) ==
    IF S = {} THEN 0
    ELSE LET x == CHOOSE y \in S : TRUE IN Fetched(x) + SumFetches(S \ {x})

\* the request for this outcome fails: transport error or error status
Fails(o) == o.kind # "http" \/ (400 <= o.status /\ o.status <= 599)

InFlight == Cardinality({j \in 1..Len(futs) : futs[j].st = "requesting"})

\* C1: an item requested again (use_cache=True) when its entry is older than
\* cache_duration is fetched anew, by exactly one request.
C1_ExpiredEntryRefetched ==
    (Returned /\ use_cache) =>
        \A id \in Requested : WasExpired(id) => Fetched(id) = 1

\* C2: an item requested again (use_cache=True) within cache_duration of its
\* entry's timestamp is answered with the cached metrics, and no request is
\* issued for it.
C2_CacheHitServedFromCache ==
    (ipc # "idle" /\ use_cache) =>
        \A id \in Requested : WasFresh(id) =>
            /\ Fetched(id) = 0
            /\ Returned => insights_map[id] = cache0[id].data

\* a fresh entry was served although the upstream would now answer otherwise
C2_Witness ==
    /\ Returned /\ use_cache
    /\ \E id \in Requested :
         /\ WasFresh(id)
         /\ now0 > cache0[id].timestamp
         /\ ProcessSingleInsight(id, Upstream(scen, id)).insights # cache0[id].data

C4_ResultKeys == Returned => DOMAIN insights_map = Requested

\* a call that mixed a cache hit, a successful fetch and a failed fetch
C4_Witness ==
    /\ Returned
    /\ \E a, b, c \in Requested :
         /\ Fetched(a) = 0
         /\ Fetched(b) > 0 /\ Fails(Upstream(scen, b))
         /\ Fetched(c) > 0 /\ ~Fails(Upstream(scen, c))

\* C5: a failed request leaves no exception in its worker and gives its item
\* the all-zero bundle; the other items of the sub-batch get the metrics of
\* their own responses (views/likes 100/10 for OkA, 50/5 for OkC).
C5_PartialFailureIsolated ==
    /\ \A j \in 1..Len(futs) : futs[j].st = "finished" => ~futs[j].res.raised
    /\ Returned =>
         \A id \in Requested : Fetched(id) > 0 =>
            LET o == Upstream(scen, id) IN
            /\ Fails(o) =>
                 insights_map[id] = [views |-> 0, likes |-> 0, replies |-> 0,
                                     reposts |-> 0, quotes |-> 0, shares |-> 0]
            /\ o = OkA =>
                 insights_map[id] = [views |-> 100, likes |-> 10, replies |-> 0,
                                     reposts |-> 0, quotes |-> 0, shares |-> 0]
            /\ o = OkC =>
                 insights_map[id] = [views |-> 50, likes |-> 5, replies |-> 0,
                                     reposts |-> 0, quotes |-> 0, shares |-> 0]

\* a=100/10, b fails, c=50/5, fetched in one sub-batch
C5_Witness ==
    /\ Returned
    /\ req_ids = <<1, 2, 3>>
    /\ \A id \in Requested : Fetched(id) = 1
    /\ Upstream(scen, 1) = OkA /\ Fails(Upstream(scen, 2)) /\ Upstream(scen, 3) = OkC
    /\ insights_map[2] = ZeroInsights /\ insights_map[1].views = 100

\* C6: at most insights_batch_size metrics requests are in flight.
C6_BoundedInFlight == InFlight <= insights_batch_size

\* a full sub-batch in flight while more misses wait
C6_Witness ==
    /\ Len(post_ids) > insights_batch_size
    /\ InFlight = insights_batch_size


(***************************************************************************)
(* Properties of _make_api_request and get_user_posts.                     *)
(***************************************************************************)
Requests == Len(reqlog)
PostsReturned == lpc = "returned"

RECURSIVE Flatten(_)
Flatten(ps) ==
    IF ps = <<>> THEN <<>> ELSE Flatten(SubSeq(ps, 1, Len(ps) - 1)) \o ps[Len(ps)].items

\* items accumulated when request k was issued
Have(k) == Len(Flatten(SubSeq(pages, 1, k - 1)))

\* C7 as stated: every request, failed or not, is followed by the sleep.
C7_SleepAfterEveryRequest == Requests > 0 => lastreq.slept

\* C7 as the code has it: a request that returns its response has slept
\* api_delay before returning; a request that fails (transport error, 4xx or
\* 5xx status) raises without sleeping.
C7_SleepOnlyAfterSuccess ==
    Requests > 0 =>
        /\ Fails(lastreq.resp) => ~lastreq.ret /\ ~lastreq.slept
        /\ ~Fails(lastreq.resp) => lastreq.ret /\ lastreq.slept

\* a page was fetched (and slept after), then a request failed
C7_Witness == Requests > 1 /\ Fails(lastreq.resp) /\ ~lastreq.slept

\* C8 as stated: a response is returned exactly for the 2xx statuses.
C8_ReturnsOnly2xx ==
    Requests > 0 =>
        (lastreq.ret <=> (lastreq.resp.kind = "http"
                          /\ 200 <= lastreq.resp.status
                          /\ lastreq.resp.status <= 299))

\* C8 as the code has it: every 4xx and 5xx status and every transport
\* failure raises; every other status (the 2xx ones, and e.g. 304) returns.
C8_RaisesOn4xx5xx ==
    Requests > 0 =>
        LET o == lastreq.resp IN
        /\ o.kind # "http" => ~lastreq.ret
        /\ (o.kind = "http" /\ 400 <= o.status /\ o.status <= 599) => ~lastreq.ret
        /\ (o.kind = "http" /\ o.status < 400) => lastreq.ret

\* a 304 came back to the caller as a response
C8_Witness ==
    /\ Requests > 0
    /\ lastreq.ret
    /\ lastreq.resp.status = 304

\* C9: the first request goes to me/threads and each later one to the next
\* link of the page before it; test mode issues no request once `limit`
\* items are there; the page size asked for is min(limit - accumulated,
\* batch_size) in test mode and batch_size otherwise; without a failure the
\* loop ends only on a page without next link or, in test mode, on `limit`.
C9_Pagination ==
    /\ \A k \in 1..Requests :
         /\ reqlog[k].params.limit =
                IF is_test_mode THEN Min(limit - Have(k), 100) ELSE 100
         /\ is_test_mode => Have(k) < limit
         /\ k = 1 => reqlog[k].endpoint = [kind |-> "path", page |-> 1]
         /\ k > 1 =>
              /\ k - 1 <= Len(pages)
              /\ pages[k - 1].next.kind \in {"base", "other"}
              /\ pages[k - 1].next.kind = "base" =>
                   reqlog[k].endpoint = [kind |-> "path", page |-> pages[k - 1].next.page]
              /\ pages[k - 1].next.kind = "other" =>
                   reqlog[k].endpoint = [kind |-> "url", page |-> pages[k - 1].next.page]
    /\ (PostsReturned /\ ended = "limit") =>
         is_test_mode /\ Len(all_posts) >= limit
    /\ (PostsReturned /\ ended = "nonext") =>
         /\ Requests = Len(pages)
         /\ Requests > 0
         /\ pages[Requests].next.kind \in {"none", "bare"}

\* test mode, limit 150, pages of 60: requests for 100, 90 and 30 items
C9_Witness ==
    /\ PostsReturned /\ is_test_mode /\ limit = 150
    /\ ended = "limit"
    /\ Requests = 3
    /\ reqlog[3].params.limit = 30

\* C10: when the request for page k fails, get_user_posts leaves the loop
\* without raising and without a further request, and all_posts is the
\* concatenation of the items of pages 1..k-1.
C10_Truncation ==
    ended = "request" =>
        /\ lpc \in {"exit", "returned"}
        /\ ~lastreq.ret
        /\ Requests = Len(pages) + 1
        /\ all_posts = Flatten(pages)

\* page 1 delivered its items, the request for page 2 failed
C10_Witness ==
    /\ PostsReturned /\ ended = "request"
    /\ Requests = 2
    /\ Len(all_posts) > 0
    /\ all_posts = pages[1].items

(***************************************************************************)
(* Properties of the credential store.                                     *)
(***************************************************************************)
Loaded == last.op = "load"
Got == last.op = "get"

\* the call found the file as a completed encrypt_credentials left it, so
\* sealed from the latest dict, and the calling store holds the sealing key
FoundIntact == last.found # NoFile /\ Intact(last.found[1])
SameKey == last.found[1].tok.key = store[last.m]
SealedThen == Last(last.sealed)

\* str keys; str and list values
JsonNative(M) ==
    \A k \in DOMAIN M : k.t = "str" /\ M[k].t \in {"str", "list"}

\* C11 as stated: load_credentials after encrypt_credentials(M), the file
\* untouched in between and the key the same, returns a dict equal to M, for
\* every M json.dumps accepts.
C11_RoundTrip ==
    (Loaded /\ FoundIntact /\ SameKey) =>
        last.res.ok /\ last.res.map = SealedThen

\* C11: load_credentials after encrypt_credentials(M), the file untouched in
\* between and the key the same, returns a dict; the dict equals M when the
\* keys of M are str and its values str or list.
C11_RoundTripJson ==
    (Loaded /\ FoundIntact /\ SameKey) =>
        /\ last.res.ok
        /\ JsonNative(SealedThen) => last.res.map = SealedThen

\* a dict with a list value came back equal
C11_Witness ==
    /\ Loaded /\ FoundIntact /\ SameKey
    /\ SealedThen = WithList
    /\ last.res.ok /\ last.res.map = WithList

FoundDamaged == last.found # NoFile /\ ~Intact(last.found[1])

\* C12 as stated: load_credentials on a file that differs from a sealed one
\* by one flipped bit, or by truncation, raises the decryption error.
C12_TamperedNeverLoads ==
    (Loaded /\ FoundDamaged) => last.res = InvalidTokenError

\* C12: load_credentials on a file that differs from a sealed one by one
\* flipped bit, or by truncation, raises the decryption error, unless the
\* flipped bit is an unused bit of the last base64 character: then, with the
\* sealing key, it returns the dict that was sealed.  It never returns
\* another dict.
C12_TamperedNeverWrong ==
    (Loaded /\ FoundDamaged) =>
        \/ last.res = InvalidTokenError
        \/ /\ last.found[1].cut = "whole" /\ last.found[1].flip = "slack"
           /\ SameKey
           /\ last.res = ReturnMap(SealedThen)

\* a bit of the token's decoded bytes was flipped, the key is the sealing key
C12_Witness ==
    /\ Loaded /\ FoundDamaged /\ SameKey
    /\ last.found[1].cut = "whole" /\ last.found[1].flip = "body"
    /\ last.res = InvalidTokenError

\* C13: load_credentials of a store whose key is not the key the file was
\* sealed with raises the decryption error; once the key file holds another
\* key, or is gone, no store made from it opens the file.
C13_OtherKeyNeverLoads ==
    /\ (Loaded /\ last.found # NoFile /\ ~SameKey) =>
            last.res = InvalidTokenError
    /\ (blob # NoFile /\ keyFile # File(blob[1].tok.key)) =>
            LET r == CryptoManagerInit(keyFile)
            IN ~r.ok \/ LoadCredentials(r.key, blob) = InvalidTokenError

\* sealed under the first key, loaded by a store made after the key file was
\* replaced
C13_Witness ==
    /\ Loaded /\ FoundIntact /\ ~SameKey
    /\ last.found[1].tok.key = Keys[1]
    /\ store[last.m] = Keys[2]
    /\ last.res = InvalidTokenError

\* the dict the call decrypted, when it could
Decrypts ==
    last.found # NoFile /\ FernetDecrypt(store[last.m], last.found[1]).ok
Decrypted == JsonLoads(last.found[1].tok.text)

\* C14: get_single_credential(name) for a name that is not in the decrypted
\* dict raises; it returns nothing, neither None nor "".
C14_AbsentNameRaises ==
    (Got /\ Decrypts /\ StrKey(last.name) \notin DOMAIN Decrypted) =>
        /\ ~last.res.ok
        /\ last.res = Wrap("get_single_credential", CredentialNotFound)

\* the file holds threads_token only, spreadsheet_id was asked for
C14_Witness ==
    /\ Got /\ FoundIntact /\ SameKey
    /\ SealedThen = TokenOnly
    /\ last.name = "spreadsheet_id"
    /\ ~last.res.ok

\* what C15 names: the store cannot be initialised, the file cannot be
\* decrypted, threads_token is not in it, or its value is empty
StartupFails(env, kf, bl) ==
    \/ ~env.CRYPTO_KEY_PATH \/ ~env.CREDENTIALS_PATH
    \/ kf = NoFile
    \/ bl = NoFile
    \/ ~FernetDecrypt(kf[1], bl[1]).ok
    \/ StrKey("threads_token") \notin DOMAIN JsonLoads(bl[1].tok.text)
    \/ Falsy(JsonLoads(bl[1].tok.text)[StrKey("threads_token")])

\* C15: when the store cannot be initialised, the file cannot be decrypted,
\* the token is absent or is empty, the constructor of ThreadsAPIClient
\* raises and the run is over: it has sent no request and sends none.
C15_FailedStartNoRequest ==
    [][/\ (run.st = "idle" /\ run'.st # "idle"
           /\ StartupFails(run'.env, keyFile, blob)) =>
              (run'.st = "aborted" /\ ~run'.res.ok /\ run'.reqs = 0)
       /\ run.st = "idle" => run.reqs = 0
       /\ run.st = "aborted" => run' = run]_vars

\* the stored token was the empty string
C15_Witness ==
    /\ run.st = "aborted"
    /\ run.res = Raise("ValueError", <<"Unable to obtain access token">>)
    /\ run.reqs = 0

C17_AbsentBlobOtherKind ==
    (Loaded /\ last.found = NoFile) =>
        ~last.res.ok /\ last.res.type # InvalidTokenError.type

\* C17: load_credentials with no credentials file raises a CryptoError, the
\* exception type of the decryption error; the message alone tells the two
\* apart.
C17_AbsentBlobOtherMessage ==
    (Loaded /\ last.found = NoFile) =>
        /\ ~last.res.ok
        /\ last.res = Wrap("Decryption failed", CredentialsFileNotFound)
        /\ last.res.type = InvalidTokenError.type
        /\ last.res.msg # InvalidTokenError.msg

\* a store exists, nothing was ever sealed, load_credentials was called
C17_Witness ==
    /\ Loaded /\ last.found = NoFile
    /\ last.sealed = <<>>
    /\ last.res.msg = <<"Decryption failed", "Credentials file not found">>

\* the file is absent or holds all bytes of a token
Complete(f) == f = NoFile \/ f[1].cut = "whole"

\* C18 as stated: while encrypt_credentials runs, and after it failed, the
\* credentials file is absent or complete, never empty or cut short.
C18_AtomicWrite ==
    /\ wr # NoWrite => Complete(blob)
    /\ last.op = "encrypt" => Complete(last.found)

\* C19: after encrypt_credentials(M1) and then encrypt_credentials(M2),
\* load_credentials returns exactly M2; no entry of M1 that M2 lacks is in
\* it.
C19_WholesaleOverwrite ==
    (Loaded /\ FoundIntact /\ SameKey /\ Len(last.sealed) = 2) =>
        /\ last.res = ReturnMap(last.sealed[2])
        /\ \A k \in DOMAIN last.sealed[1] \ DOMAIN last.sealed[2] :
               k \notin DOMAIN last.res.map

\* Full, then TokenOnly: spreadsheet_id is gone
C19_Witness ==
    /\ Loaded /\ FoundIntact /\ SameKey
    /\ last.sealed = <<Full, TokenOnly>>
    /\ last.res = ReturnMap(TokenOnly)
    /\ StrKey("spreadsheet_id") \notin DOMAIN last.res.map

\* C20: get_single_credential decrypts the file as it is at the call: it
\* returns the value the latest sealed dict has for the name, whichever
\* store sealed it.
C20_NoStaleValue ==
    (Got /\ FoundIntact /\ SameKey
         /\ StrKey(last.name) \in DOMAIN SealedThen) =>
        last.res = ReturnValue(SealedThen[StrKey(last.name)])

\* threads_token was "t1", the file was sealed again with "t2", and "t2" is
\* what came back
C20_Witness ==
    /\ Got /\ FoundIntact /\ SameKey
    /\ last.sealed = <<Full, TokenOnly>>
    /\ last.name = "threads_token"
    /\ last.res = ReturnValue(PyStr("t2"))


(***************************************************************************)
(* Further properties of get_user_posts.                                   *)
(***************************************************************************)
\* `since` was passed: a string that is neither None nor empty
SinceGiven == since \notin {"None", ""}

\* C21: when `since` is given, every page request of the call carries it
\* unchanged as its `since` parameter, and the list the call builds (and
\* returns) is the concatenation, in arrival order, of the items of every
\* page the upstream returned: nothing dropped, filtered or reordered.
C21_SinceSentItemsKept ==
    /\ SinceGiven =>
         \A k \in 1..Requests :
            reqlog[k].params.hasSince /\ reqlog[k].params.since = since
    /\ all_posts = Flatten(pages)

\* a call with `since` returned after two pages of 60 and of 1 item
C21_Witness ==
    /\ PostsReturned /\ SinceGiven
    /\ Requests >= 2 /\ reqlog[2].params.since = since
    /\ Len(pages) = 2 /\ Len(pages[1].items) = 60 /\ Len(pages[2].items) = 1
    /\ Len(all_posts) = 61 /\ all_posts[61] = <<2, 1>>


(***************************************************************************)
(* Further properties of get_post_insights.                                *)
(***************************************************************************)
\* the ids of the sub-batch under way, in submission order
Submitted == [j \in 1..Len(futs) |-> futs[j].post_id]

\* the slice of the miss list that starts at position i
SliceAt(i) ==
    SubSeq(post_ids, i, Min(i + insights_batch_size - 1, Len(post_ids)))

\* C22: the sub-batches are the consecutive slices of insights_batch_size ids
\* of the miss list, in input order, and run one after another: while a
\* sub-batch runs, every id of the earlier slices has been requested once and
\* its result collected, and no id of a later slice has been requested.
C22_BatchesInSequence ==
    (ipc # "idle" /\ Distinct(post_ids)) =>
        /\ (bi - 1) % insights_batch_size = 0
        /\ ipc = "collect" => Submitted = SliceAt(bi)
        /\ ipc # "collect" => futs = <<>>
        /\ \A p \in 1..Len(post_ids) :
              /\ p < bi =>
                    /\ Fetched(post_ids[p]) = 1
                    /\ post_ids[p] \in DOMAIN insights_map
              /\ p >= bi + insights_batch_size => Fetched(post_ids[p]) = 0
              /\ (p >= bi /\ ipc # "collect") => Fetched(post_ids[p]) = 0

\* the second sub-batch (the eleventh id alone) has its request under way
\* after the ten workers of the first have been collected
C22_Witness ==
    /\ ipc = "collect" /\ bi = insights_batch_size + 1
    /\ Len(post_ids) = LongLen
    /\ Submitted = <<post_ids[LongLen]>>
    /\ futs[1].st = "requesting"
    /\ \A p \in 1..insights_batch_size : post_ids[p] \in DOMAIN insights_map


\* what a fetch of id yields under the scenario in force
Fresh(id) == ProcessSingleInsight(id, Upstream(scen, id)).insights

\* the id was served from the cache as the call found it
Hit(id) == use_cache /\ InCache(cache0, id)

\* the metrics held by the cache, without the timestamps
CachedData(c) == [id \in DOMAIN c |-> c[id].data]

\* the map and the cached metrics the call's inputs determine
ExpectedMap ==
    [id \in Requested |-> IF Hit(id) THEN cache0[id].data ELSE Fresh(id)]

ExpectedCached ==
    IF use_cache
    THEN [id \in DOMAIN cache0 \cup Requested |->
             IF InCache(cache0, id) THEN cache0[id].data ELSE Fresh(id)]
    ELSE CachedData(cache0)

\* C23: for a list of distinct ids and fixed per-item upstream outcomes, the
\* map returned and the cached ids with their metrics are a function of the
\* call's inputs alone: they are the same in whatever order the workers of a
\* sub-batch send and complete.
C23_Deterministic ==
    (Returned /\ Distinct(req_ids)) =>
        /\ insights_map = ExpectedMap
        /\ CachedData(cache) = ExpectedCached

\* three distinct ids were fetched by three concurrent workers, with a
\* failure among them, and cached
C23_Witness ==
    /\ Returned /\ use_cache /\ Len(req_ids) = 3 /\ Distinct(req_ids)
    /\ \A id \in Requested : Fetched(id) = 1
    /\ \E id \in Requested : Fails(Upstream(scen, id))
    /\ \E id \in Requested : Fresh(id) # ZeroInsights
    /\ insights_map = ExpectedMap


\* the step is one turn of the result collection loop of get_post_insights
CollectStep == ipc = "collect" /\ ck' = ck + 1 /\ UNCHANGED futs

\* C24: the insights cache has one writer.  A step that changes it is a turn
\* of the result collection loop of get_post_insights called with
\* use_cache = True, and it writes the entry of the id just collected and no
\* other; the workers' steps, the passing of time, the call and the return
\* leave it alone; and no step removes an entry.
C24_SingleWriter ==
    [][ /\ DOMAIN cache \subseteq DOMAIN cache'
        /\ cache' # cache =>
              /\ CollectStep /\ use_cache
              /\ futs[ck].st = "finished"
              /\ \A id \in DOMAIN cache :
                    id # futs[ck].post_id => cache'[id] = cache[id] ]_vars

\* an entry older than cache_duration is still in the cache after a later
\* call has written another entry next to it
C24_Witness ==
    /\ Returned /\ use_cache
    /\ \E old \in DOMAIN cache0, new \in DOMAIN cache \ DOMAIN cache0 :
          /\ cache[old] = cache0[old]
          /\ cache[new].timestamp - cache[old].timestamp > cache_duration


\* the metrics request for id was issued during the call and succeeded
FetchedOk(id) == Fetched(id) > 0 /\ ~Fails(Upstream(scen, id))

\* C25: once get_post_insights(ids, use_cache = True) has returned, every
\* item whose metrics request succeeded during the call has a cache entry
\* that holds exactly the metrics the result map has for it, stamped with a
\* clock reading taken during the call.
C25_FetchedIsCached ==
    (Returned /\ use_cache) =>
        \A id \in Requested :
            FetchedOk(id) =>
                /\ InCache(cache, id)
                /\ cache[id].data = insights_map[id]
                /\ now0 <= cache[id].timestamp
                /\ cache[id].timestamp <= now

\* a call made after the clock had advanced fetched an item with non-zero
\* metrics and cached it under the time of the call
C25_Witness ==
    /\ Returned /\ use_cache /\ now0 > 0
    /\ \E id \in Requested :
          /\ FetchedOk(id) /\ Fresh(id) # ZeroInsights
          /\ cache[id] = [data |-> Fresh(id), timestamp |-> now0]
          /\ insights_map[id] = Fresh(id)


\* occurrences of id in ids
Count(id, ids) == Cardinality({p \in 1..Len(ids) : ids[p] = id})

\* C26: duplicate ids are kept.  When the call has returned, an id that was
\* not served from the cache has been fetched once per occurrence in the
\* input and has one entry in the result map, the fetched bundle; and every
\* turn of the collection loop (with use_cache = True) overwrites the cache
\* entry of its id with its own result and the current time, so the entry
\* left is that of the occurrence collected last.
C26_DuplicatesKept ==
    /\ [](Returned =>
            /\ DOMAIN insights_map = Requested
            /\ \A id \in Requested :
                  ~Hit(id) => /\ Fetched(id) = Count(id, req_ids)
                              /\ insights_map[id] = Fresh(id))
    /\ [][ (CollectStep /\ use_cache) =>
              cache'[futs[ck].post_id] =
                  [data |-> futs[ck].res.insights, timestamp |-> now] ]_vars

\* an uncached id given twice was fetched twice and is in the map once; its
\* cache entry was written after the clock had advanced during the call
C26_Witness ==
    /\ Returned /\ use_cache /\ req_ids = <<2, 2>> /\ ~Hit(2)
    /\ Fetched(2) = 2
    /\ DOMAIN insights_map = {2}
    /\ cache[2].data = Fresh(2) /\ cache[2].timestamp > now0


C28_CacheBypassed ==
    (ipc # "idle" /\ ~use_cache) =>
        /\ cache = cache0
        /\ post_ids = req_ids
        /\ Returned =>
              /\ DOMAIN insights_map = Requested
              /\ \A id \in Requested :
                    /\ Fetched(id) = Count(id, req_ids)
                    /\ insights_map[id] = Fresh(id)

\* a cached id was requested with use_cache = False: it was fetched, the map
\* has the new metrics, and the cache still has the old ones
C28_Witness ==
    /\ Returned /\ ~use_cache
    /\ \E id \in Requested :
          /\ InCache(cache0, id)
          /\ Fetched(id) = 1
          /\ insights_map[id] = Fresh(id)
          /\ cache[id] = cache0[id]
          /\ cache[id].data # Fresh(id)


\* every request so far was answered with a page of at least one item
NonEmptyPages ==
    /\ Len(pages) = Requests
    /\ \A k \in 1..Len(pages) : Len(pages[k].items) >= 1

Max(a, b) == IF a >= b THEN a ELSE b

\* C29: in test mode with limit L, as long as every page has at least one
\* item the call has issued at most max(L, 0) requests, each asking for
\* between 1 and batch_size items; once max(L, 0) requests are out the loop
\* is at its break (len(all_posts) >= L) whatever next link the last page
\* carried, so the call returns; and with L <= 0 no request is issued and
\* the list returned is empty.
C29_TestModeStops ==
    (lpc # "idle" /\ is_test_mode) =>
        /\ NonEmptyPages =>
              /\ Requests <= Max(limit, 0)
              /\ \A k \in 1..Requests :
                    /\ reqlog[k].params.limit >= 1
                    /\ reqlog[k].params.limit <= batch_size
              /\ (lpc = "loop" /\ Requests = Max(limit, 0)) =>
                    /\ AtLimit(is_test_mode, limit, Len(all_posts))
                    /\ ~ENABLED FetchPage
                    /\ ENABLED (LimitReached \/ LoopExhausted)
        /\ limit <= 0 => Requests = 0 /\ all_posts = <<>>

\* limit 2 and pages of one item, each with a next link: two requests, then
\* the call returned its two items
C29_Witness ==
    /\ PostsReturned /\ is_test_mode /\ limit = 2
    /\ NonEmptyPages /\ Requests = 2
    /\ \A k \in 1..2 : Len(pages[k].items) = 1 /\ pages[k].next.kind = "base"
    /\ Truthy(next_page) /\ ended = "limit"
    /\ Len(all_posts) = 2


\* the metric records of a response, none when the request failed or the
\* body had no parsable `data`
Records(o) ==
    IF ~Fails(o) /\ o.body.json /\ o.body.hasData THEN o.body.data ELSE <<>>

\* the bundle ins is what the claim says of the response o
BundleOf(ins, o) ==
    /\ MetricSet \subseteq DOMAIN ins
    /\ \A m \in MetricSet :
          LET recs == {k \in 1..Len(Records(o)) : Records(o)[k].name = m}
          IN  /\ recs = {} => ins[m] = 0
              /\ \A k \in recs :
                    LET rec == Records(o)[k] IN
                    (Len(rec.values) > 0 /\ rec.total.present
                     /\ rec.values[1].hasValue) =>
                        ins[m] = rec.values[1].value

\* C30: every bundle a worker has produced, and every bundle the result map
\* holds for a fetched id, has a value for each of the six metrics; a metric
\* the response does not list is 0 (all six when the fetch failed); and a
\* metric that has both a non-empty `values` list and a total_value has the
\* value of the first element of `values`.
C30_SixMetrics ==
    /\ \A j \in 1..Len(futs) :
          futs[j].st = "finished" =>
              BundleOf(futs[j].res.insights, Upstream(scen, futs[j].post_id))
    /\ \A id \in DOMAIN insights_map :
          /\ MetricSet \subseteq DOMAIN insights_map[id]
          /\ Fetched(id) > 0 => BundleOf(insights_map[id], Upstream(scen, id))

\* the response with all six metrics was fetched: views, which has values
\* 7, 9 and total_value 8, is 7; next to it a failed fetch is all zeros
C30_Witness ==
    /\ Returned
    /\ \E id \in Requested :
          /\ Fetched(id) = 1 /\ Upstream(scen, id) = OkFull
          /\ insights_map[id].views = 7 /\ insights_map[id].reposts = 4
          /\ insights_map[id].quotes = 0 /\ insights_map[id].shares = 2
    /\ \E id \in Requested :
          /\ Fetched(id) = 1 /\ Fails(Upstream(scen, id))
          /\ insights_map[id] = ZeroInsights

=============================================================================
